---- MODULE Spec2Model ----
(***************************************************************************)
(* FS25DocScraper (src/main.py): a sequential scraper that reads a root    *)
(* page, resolves the leaves of every category, writes one document per   *)
(* leaf unless its file already exists, accumulates a manifest in memory  *)
(* and saves manifest.json and INDEX.md at the end of the run.            *)
(*                                                                         *)
(* Names are sequences of one-character strings.  A path below the output  *)
(* directory is the triple <<version, safe_category, safe_item>>, standing *)
(* for <output_dir>/<version>/<safe_category>/<safe_item>.md.              *)
(***************************************************************************)
EXTENDS Integers, Sequences, FiniteSets, TLC

\* ------------------------------------------------------------------ bounds
MaxLen == 3
MaxCats == 2
MaxSubs == 2
MaxRuns == 2

\* Python's None where a string is expected
None == "None"

\* get_page's result on any network or status error (line 49)
NoHtml == [failed |-> TRUE]

\* no response is being processed
Idle == [idle |-> TRUE]

Versions == {"script", "engine"}

\* ------------------------------------------------------- character classes
\* One representative per class the regular expression [^\w\s-], strip() and
\* replace(' ', '_') tell apart.
Alphabet == {"a", "_", "-", " ", "\t", "!"}

\* \w : letters, digits and the underscore
IsWord(c) == c \in {"a", "b", "c", "_"}

\* \s, and str.strip()'s default character set
IsSpace(c) == c \in {" ", "\t"}

\* re.sub(r'[^\w\s-]', '', name)
RemoveUnsafe(s) == SelectSeq(s, LAMBDA c : IsWord(c) \/ IsSpace(c) \/ c = "-")

RECURSIVE LStrip(_)
LStrip(s) == IF s # <<>> /\ IsSpace(Head(s)) THEN LStrip(Tail(s)) ELSE s

RECURSIVE RStrip(_)
RStrip(s) ==
    IF s # <<>> /\ IsSpace(s[Len(s)]) THEN RStrip(SubSeq(s, 1, Len(s) - 1)) ELSE s

\* str.strip()
Strip(s) == RStrip(LStrip(s))

\* str.replace(' ', '_')
ReplaceSpaces(s) == [k \in 1..Len(s) |-> IF s[k] = " " THEN "_" ELSE s[k]]

\* strip() applied before re.sub instead of after it
SanitizeStripFirst(name) == ReplaceSpaces(RemoveUnsafe(Strip(name)))

\* re.sub(r'[^\w\s-]', '', name).strip().replace(' ', '_')
Sanitize(name) == ReplaceSpaces(Strip(RemoveUnsafe(name)))

\* category_info.get('category_name', category_info['name'])
CategoryNameOf(info) ==
    IF "category_name" \in DOMAIN info THEN info.category_name ELSE info.name

\* the path scrape_page probes with file_path.exists()
ProbePath(info) == <<info.version, Sanitize(CategoryNameOf(info)), Sanitize(info.name)>>

\* the path save_content opens for writing
SavePath(info) == <<info.version, Sanitize(CategoryNameOf(info)), Sanitize(info.name)>>


\* ------------------------------------------------------------- the site
BoundedSeqs(S, n) == UNION {[1..k -> S] : k \in 0..n}

AllNames == BoundedSeqs(Alphabet, MaxLen)

\* "a b" and "a_b" sanitize to the same string
CollidingNames == {<<"a", " ", "b">>, <<"a", "_", "b">>}

\* "a b" and "c!" do not
DistinctNames == {<<"a", " ", "b">>, <<"c", "!">>}

\* What the documentation site serves: the display names it uses, the versions
\* it documents and how many links its navigation lists hold at most.
Sites ==
    {[names |-> CollidingNames, versions |-> {"script"}, cats |-> MaxCats, subs |-> MaxSubs],
     [names |-> DistinctNames, versions |-> {"script"}, cats |-> MaxCats + 1, subs |-> 1]}
        \cup {[names |-> {n}, versions |-> {"engine"}, cats |-> 1, subs |-> 1] :
                 n \in AllNames}

\* a navigation link: parse_qs(urlparse(href).query) and link.text.strip()
CategoryLink(v, n) ==
    IF v = "script"
    THEN [query |-> [version |-> v, category |-> n, class |-> n], text |-> n]
    ELSE [query |-> [version |-> v, category |-> n, function |-> n], text |-> n]

UntargetedLink(v, n) == [query |-> [version |-> v, category |-> n], text |-> n]

RootLinks(st) ==
    {CategoryLink(v, n) : v \in st.versions, n \in st.names}
        \cup {UntargetedLink(v, n) : v \in st.versions, n \in st.names}

\* responses to the request for the root page
RootPages(st) ==
    {NoHtml, [sidebar |-> FALSE, script |-> <<>>, engine |-> <<>>]}
        \cup {[sidebar |-> TRUE, script |-> s, engine |-> e] :
                <<s, e>> \in {p \in BoundedSeqs(RootLinks(st), st.cats)
                                      \X BoundedSeqs(RootLinks(st), st.cats) :
                                 Len(p[1]) + Len(p[2]) <= st.cats}}

\* a link of a nested sub-list: to a class, to a function, or to neither
SubLinks(st) ==
    {[query |-> [class |-> n], text |-> n] : n \in {m \in st.names : "script" \in st.versions}}
        \cup {[query |-> [function |-> n], text |-> n] :
                 n \in {m \in st.names : "engine" \in st.versions}}
        \cup {[query |-> [version |-> "script"], text |-> <<"-">>]}

\* responses to the request get_subcategories issues
SubPages(st) ==
    {NoHtml,
     [sidebar |-> FALSE, selected |-> FALSE, nested |-> FALSE, links |-> <<>>],
     [sidebar |-> TRUE, selected |-> FALSE, nested |-> FALSE, links |-> <<>>],
     [sidebar |-> TRUE, selected |-> TRUE, nested |-> FALSE, links |-> <<>>]}
        \cup {[sidebar |-> TRUE, selected |-> TRUE, nested |-> TRUE, links |-> l] :
                l \in BoundedSeqs(SubLinks(st), st.subs)}

\* responses to the request scrape_page issues: div#box5, its div.entry, the
\* number of div children of the entry and the second child's content
LeafPages ==
    {NoHtml,
     [box5 |-> FALSE, entry |-> FALSE, divs |-> 0, body |-> None],
     [box5 |-> TRUE, entry |-> FALSE, divs |-> 0, body |-> None],
     [box5 |-> TRUE, entry |-> TRUE, divs |-> 1, body |-> None],
     [box5 |-> TRUE, entry |-> TRUE, divs |-> 2, body |-> "Hello"]}

\* ------------------------------------------------------------- parsing
\* the links of one sidebar section that parse_main_page keeps
RECURSIVE SectionCategories(_, _)
SectionCategories(links, v) ==
    IF links = <<>> THEN <<>>
    ELSE LET q == Head(links).query
             target == IF v = "script" THEN "class" ELSE "function"
             rest == SectionCategories(Tail(links), v)
         IN IF /\ "version" \in DOMAIN q
               /\ q.version = v
               /\ "category" \in DOMAIN q
               /\ target \in DOMAIN q
            THEN IF v = "script"
                 THEN <<[version |-> "script", category |-> q.category,
                         class |-> q.class, name |-> Head(links).text]>> \o rest
                 ELSE <<[version |-> "engine", category |-> q.category,
                         function |-> q.function, name |-> Head(links).text]>> \o rest
            ELSE rest

\* parse_main_page on a response
ParseMainPage(html) ==
    IF html = NoHtml THEN <<>>
    ELSE IF ~html.sidebar THEN <<>>
    ELSE SectionCategories(html.script, "script") \o SectionCategories(html.engine, "engine")

\* sub_info carrying the sub-link's own text as category_name
SubInfoOwnName(category_info, link) ==
    IF category_info.version = "script"
    THEN [version |-> category_info.version, category |-> category_info.category,
          name |-> link.text, category_name |-> link.text,
          class |-> link.query.class]
    ELSE [version |-> category_info.version, category |-> category_info.category,
          name |-> link.text, category_name |-> link.text,
          function |-> link.query.function]

\* sub_info of get_subcategories, completed with the link's class or function
SubInfo(category_info, link) ==
    IF category_info.version = "script"
    THEN [version |-> category_info.version, category |-> category_info.category,
          name |-> link.text, category_name |-> category_info.name,
          class |-> link.query.class]
    ELSE [version |-> category_info.version, category |-> category_info.category,
          name |-> link.text, category_name |-> category_info.name,
          function |-> link.query.function]

\* the loop over nested_ul.find_all('a', href=True)
RECURSIVE NestedLeaves(_, _)
NestedLeaves(category_info, links) ==
    IF links = <<>> THEN <<>>
    ELSE LET link == Head(links)
             rest == NestedLeaves(category_info, Tail(links))
         IN IF \/ category_info.version = "script" /\ "class" \in DOMAIN link.query
               \/ category_info.version = "engine" /\ "function" \in DOMAIN link.query
            THEN <<SubInfo(category_info, link)>> \o rest
            ELSE rest

\* the fallback left out: the list is returned as found
WithoutFallback(subcategories, category_info) == subcategories

\* if not subcategories: subcategories.append(category_info)
WithFallback(subcategories, category_info) ==
    IF subcategories = <<>> THEN <<category_info>> ELSE subcategories

\* get_subcategories on a response
GetSubcategories(category_info, html) ==
    IF html = NoHtml THEN <<>>
    ELSE IF ~html.sidebar THEN <<>>
    ELSE WithFallback(IF html.selected /\ html.nested
                      THEN NestedLeaves(category_info, html.links)
                      ELSE <<>>,
                      category_info)

\* a single div child of the entry taken for the content area
ExtractContentFirstDiv(soup) ==
    IF ~soup.box5 THEN None
    ELSE IF ~soup.entry THEN None
    ELSE IF soup.divs < 1 THEN None
    ELSE IF soup.body = None THEN "" ELSE soup.body

\* extract_content
ExtractContent(soup) ==
    IF ~soup.box5 THEN None
    ELSE IF ~soup.entry THEN None
    ELSE IF soup.divs < 2 THEN None
    ELSE soup.body

\* html_to_markdown: the library conversion is not interpreted
HtmlToMarkdown(content_div) == [markdown_of |-> content_div]

\* ------------------------------------------------------------- manifest
EmptyMap == [k \in {} |-> k]

Put(f, k, v) == [x \in DOMAIN f \cup {k} |-> IF x = k THEN v ELSE f[x]]

\* self.manifest as __init__ builds it
NewManifest ==
    [metadata |-> [generated_at |-> None, total_files |-> 0], versions |-> EmptyMap]

\* the new entry put in place of the list instead of appended to it
AddToManifestOverwrite(m, version, category_name, item_name, relative_path) ==
    LET vs == IF version \in DOMAIN m.versions THEN m.versions
              ELSE Put(m.versions, version, [categories |-> EmptyMap])
        cs == vs[version].categories
        entry == [name |-> item_name, path |-> relative_path]
    IN [metadata |-> [m.metadata EXCEPT !.total_files = @ + 1],
        versions |-> Put(vs, version,
                         [categories |-> Put(cs, category_name, [items |-> <<entry>>])])]

\* _add_to_manifest
AddToManifest(m, version, category_name, item_name, relative_path) ==
    LET vs == IF version \in DOMAIN m.versions THEN m.versions
              ELSE Put(m.versions, version, [categories |-> EmptyMap])
        cs0 == vs[version].categories
        cs == IF category_name \in DOMAIN cs0 THEN cs0
              ELSE Put(cs0, category_name, [items |-> <<>>])
        entry == [name |-> item_name, path |-> relative_path]
    IN [metadata |-> [m.metadata EXCEPT !.total_files = @ + 1],
        versions |-> Put(vs, version,
                         [categories |->
                            Put(cs, category_name,
                                [items |-> Append(cs[category_name].items, entry)])])]

\* what save_content writes into the file
Document(content, info) ==
    [title |-> info.name, category |-> CategoryNameOf(info),
     version |-> info.version, body |-> content]

\* ------------------------------------------------------------- state
VARIABLES
    site,            \* the site being scraped
    run,             \* number of the current invocation of main()
    pc,              \* position of scrape_all
    outDirExists,    \* the output directory exists on disk
    files,           \* documents on disk: path -> content
    manifestFile,    \* manifest.json is on disk (it is written, never read)
    indexFile,       \* INDEX.md is on disk (it is written, never read)
    manifest,        \* self.manifest
    categories,      \* scrape_all's categories
    i,               \* index of the category being processed
    subcategories,   \* scrape_all's subcategories for that category
    j,               \* index of the subcategory being scraped
    html,            \* the response being processed, or Idle
    total_scraped,   \* scrape_all's counter
    total_failed,    \* scrape_all's counter
    requests,        \* HTTP requests issued in this run
    attempted,       \* calls of scrape_page in this run
    catAttempts,     \* calls of scrape_page for the current category
    lastLeaf,        \* argument of the latest call of scrape_page
    skipped,         \* calls of scrape_page that found the file present
    writes,          \* documents written in this run
    rejected,        \* leaf responses without content in this run
    resolved,        \* leaves the processed categories resolved to
    manifestWrites,  \* writes of manifest.json in this run
    indexWrites      \* writes of INDEX.md in this run

vars == <<site, run, pc, outDirExists, files, manifestFile, indexFile, manifest,
          categories, i, subcategories, j, html, total_scraped, total_failed,
          requests, attempted, catAttempts, lastLeaf, skipped, writes, rejected,
          resolved, manifestWrites, indexWrites>>

disk == <<outDirExists, files, manifestFile, indexFile>>
counters == <<total_scraped, total_failed>>
history == <<attempted, catAttempts, lastLeaf, skipped, writes, rejected, resolved>>
saves == <<manifestWrites, indexWrites>>

\* the state of a freshly constructed FS25DocScraper about to run scrape_all
FreshProcess ==
    /\ pc = "start"
    /\ manifest = NewManifest
    /\ categories = <<>>
    /\ i = 0
    /\ subcategories = <<>>
    /\ j = 0
    /\ html = Idle
    /\ total_scraped = 0
    /\ total_failed = 0
    /\ requests = 0
    /\ attempted = 0
    /\ catAttempts = 0
    /\ lastLeaf = Idle
    /\ skipped = 0
    /\ writes = 0
    /\ rejected = 0
    /\ resolved = 0
    /\ manifestWrites = 0
    /\ indexWrites = 0

Init ==
    /\ site \in Sites
    /\ run = 1
    /\ outDirExists \in BOOLEAN
    /\ files = EmptyMap
    /\ manifestFile = FALSE
    /\ indexFile = FALSE
    /\ FreshProcess

\* ------------------------------------------------------------- scrape_all
\* the abort test never taken
NotCategoriesNever(cs) == FALSE

\* if not categories
NotCategories(cs) == cs = <<>>

\* the probe answering that nothing is there
FileExistsNever(file_path) == FALSE

\* file_path.exists()
FileExists(file_path) == file_path \in DOMAIN files

\* the skip reported as a failure
AlreadyExistsFalse == FALSE

\* scrape_page's return value when the file exists
AlreadyExistsResult == TRUE

\* every leaf counted as scraped
ScrapedAlways(n, result) == n + 1

\* total_scraped after a leaf
ScrapedAfter(n, result) == IF result THEN n + 1 ELSE n

\* total_failed after a leaf
FailedAfter(n, result) == IF result THEN n ELSE n + 1

\* the leaf scrape_all hands to scrape_page
CurrentLeaf == IF subcategories = <<>> THEN categories[i] ELSE subcategories[j]

\* the position of the loops after a leaf; the list of a finished category is
\* dropped, line 367 assigns it again before it is read
Advance ==
    IF subcategories # <<>> /\ j < Len(subcategories)
    THEN /\ j' = j + 1
         /\ pc' = "scrape"
         /\ UNCHANGED <<i, subcategories>>
    ELSE /\ j' = 0
         /\ subcategories' = <<>>
         /\ i' = IF i < Len(categories) THEN i + 1 ELSE i
         /\ pc' = IF i < Len(categories) THEN "subcats" ELSE "save"

\* scrape_all up to the loop: parse_main_page and the abort
MainPage ==
    /\ pc = "start"
    /\ \E page \in RootPages(site) :
         LET cs == ParseMainPage(page)
         IN /\ categories' = cs
            /\ IF NotCategories(cs)
               THEN pc' = "aborted" /\ i' = i
               ELSE IF cs = <<>> THEN pc' = "save" /\ i' = i
               ELSE pc' = "subcats" /\ i' = 1
    /\ requests' = requests + 1
    /\ UNCHANGED <<site, run, disk, manifest, subcategories, j, html, counters,
                   history, saves>>

\* get_subcategories: the request
FetchSubcategories ==
    /\ pc = "subcats"
    /\ \E page \in SubPages(site) : html' = page
    /\ requests' = requests + 1
    /\ pc' = "parse_subs"
    /\ UNCHANGED <<site, run, disk, manifest, categories, i, subcategories, j,
                   counters, history, saves>>

\* get_subcategories: the parse of the response and the return to scrape_all
ParseSubcategories ==
    /\ pc = "parse_subs"
    /\ LET subs == GetSubcategories(categories[i], html)
       IN /\ subcategories' = subs
          /\ resolved' = resolved + (IF subs = <<>> THEN 1 ELSE Len(subs))
    /\ j' = 1
    /\ catAttempts' = 0
    /\ html' = Idle
    /\ pc' = "scrape"
    /\ UNCHANGED <<site, run, disk, manifest, categories, i, counters, requests,
                   attempted, lastLeaf, skipped, writes, rejected, saves>>

\* scrape_page up to its request, and all of it when the file exists
ScrapePageCall(category_info) ==
    /\ attempted' = attempted + 1
    /\ catAttempts' = catAttempts + 1
    /\ lastLeaf' = category_info
    /\ IF FileExists(ProbePath(category_info))
       THEN /\ skipped' = skipped + 1
            /\ total_scraped' = ScrapedAfter(total_scraped, AlreadyExistsResult)
            /\ total_failed' = FailedAfter(total_failed, AlreadyExistsResult)
            /\ Advance
            /\ UNCHANGED <<html, requests>>
       ELSE /\ \E page \in LeafPages : html' = page
            /\ requests' = requests + 1
            /\ pc' = "extract"
            /\ UNCHANGED <<skipped, counters, i, j, subcategories>>
    /\ UNCHANGED <<site, run, disk, manifest, categories, writes, rejected,
                   resolved, saves>>

\* lines 369-375: no subcategories, the category's own page is scraped
ScrapeCategoryPage ==
    /\ pc = "scrape"
    /\ subcategories = <<>>
    /\ ScrapePageCall(categories[i])

\* lines 378-382: the next subcategory is scraped
ScrapeSubcategory ==
    /\ pc = "scrape"
    /\ subcategories # <<>>
    /\ ScrapePageCall(subcategories[j])

\* scrape_page from the response on: extract, convert, save, and the count
ScrapePageReturn ==
    /\ pc = "extract"
    /\ LET category_info == CurrentLeaf
           content_div == IF html = NoHtml THEN None ELSE ExtractContent(html)
           result == content_div # None
           file_path == SavePath(category_info)
       IN /\ IF result
             THEN /\ files' = Put(files, file_path,
                                  Document(HtmlToMarkdown(content_div), category_info))
                  /\ outDirExists' = TRUE
                  /\ manifest' = AddToManifest(manifest, category_info.version,
                                               CategoryNameOf(category_info),
                                               category_info.name, file_path)
                  /\ writes' = writes + 1
             ELSE UNCHANGED <<files, outDirExists, manifest, writes>>
          /\ total_scraped' = ScrapedAfter(total_scraped, result)
          /\ total_failed' = FailedAfter(total_failed, result)
    /\ rejected' = rejected + (IF html = NoHtml THEN 1
                               ELSE IF html.box5 /\ html.entry /\ html.divs >= 2
                               THEN 0 ELSE 1)
    /\ html' = Idle
    /\ Advance
    /\ UNCHANGED <<site, run, manifestFile, indexFile, categories, requests,
                   attempted, catAttempts, lastLeaf, skipped, resolved, saves>>

\* save_manifest; open() fails when the output directory does not exist
SaveManifest ==
    /\ pc = "save"
    /\ manifest' = [manifest EXCEPT !.metadata.generated_at = "now"]
    /\ IF outDirExists
       THEN /\ manifestFile' = TRUE
            /\ indexFile' = TRUE
            /\ manifestWrites' = manifestWrites + 1
            /\ indexWrites' = indexWrites + 1
            /\ pc' = "done"
       ELSE /\ pc' = "crashed"
            /\ UNCHANGED <<manifestFile, indexFile, saves>>
    /\ UNCHANGED <<site, run, outDirExists, files, categories, i, subcategories, j,
                   html, counters, requests, history>>

\* main() invoked again on the same output directory
Rerun ==
    /\ pc \in {"done", "aborted", "crashed"}
    /\ run < MaxRuns
    /\ run' = run + 1
    /\ pc' = "start"
    /\ manifest' = NewManifest
    /\ categories' = <<>>
    /\ i' = 0
    /\ subcategories' = <<>>
    /\ j' = 0
    /\ html' = Idle
    /\ total_scraped' = 0
    /\ total_failed' = 0
    /\ requests' = 0
    /\ attempted' = 0
    /\ catAttempts' = 0
    /\ lastLeaf' = Idle
    /\ skipped' = 0
    /\ writes' = 0
    /\ rejected' = 0
    /\ resolved' = 0
    /\ manifestWrites' = 0
    /\ indexWrites' = 0
    /\ UNCHANGED <<site, disk>>

Next ==
    \/ MainPage
    \/ FetchSubcategories
    \/ ParseSubcategories
    \/ ScrapeCategoryPage
    \/ ScrapeSubcategory
    \/ ScrapePageReturn
    \/ SaveManifest
    \/ Rerun

Spec == Init /\ [][Next]_vars

\* ------------------------------------------------------------- properties
\* every entry of the in-memory manifest, over all versions and categories
ManifestEntries(m) ==
    UNION {UNION {{[version |-> v, category |-> c, pos |-> k,
                    name |-> m.versions[v].categories[c].items[k].name,
                    path |-> m.versions[v].categories[c].items[k].path] :
                      k \in DOMAIN m.versions[v].categories[c].items} :
                  c \in DOMAIN m.versions[v].categories} :
           v \in DOMAIN m.versions}

\* the response lacks the content container scrape_page looks for
NoContainer(page) == page = NoHtml \/ ~(page.box5 /\ page.entry /\ page.divs >= 2)

\* the sub-links get_subcategories can turn into a request
Qualifying(links, v) ==
    SelectSeq(links, LAMBDA l :
        (IF v = "script" THEN "class" ELSE "function") \in DOMAIN l.query)

\* the response shows a nested sub-list under the selected navigation entry
HasNestedList(page) ==
    page # NoHtml /\ page.sidebar /\ page.selected /\ page.nested

\* C1: a run whose root page yields at least one category writes manifest.json
\* and INDEX.md exactly once, after every leaf of every category was attempted,
\* however many leaves failed.
C1_ManifestSavedOnce ==
    /\ manifestWrites <= 1
    /\ indexWrites = manifestWrites
    /\ manifestWrites = 1 =>
          /\ pc = "done"
          /\ i = Len(categories)
          /\ attempted = resolved
    /\ (pc \in {"done", "crashed"} /\ categories # <<>>) =>
          /\ manifestWrites = 1
          /\ manifestFile /\ indexFile

\* C2: a leaf whose output file exists is skipped: no request, no file or
\* manifest change, and scrape_all counts it as scraped.
C2_ExistingLeafSkipped ==
    [][(pc = "scrape" /\ SavePath(CurrentLeaf) \in DOMAIN files) =>
          /\ requests' = requests
          /\ disk' = disk
          /\ manifest' = manifest
          /\ writes' = writes
          /\ total_scraped' = total_scraped + 1
          /\ total_failed' = total_failed
          /\ pc' # "extract"]_vars

C2_Witness == run = 2 /\ skipped > 0 /\ total_scraped = skipped /\ pc = "done"

\* C3 as stated: with every leaf of the run reported as success, the file at a
\* path two distinctly-named leaves share holds the later leaf's content.
C3_LastWriteWins ==
    (/\ pc = "done"
     /\ total_failed = 0
     /\ lastLeaf # Idle
     /\ \E e \in ManifestEntries(manifest) :
           e.path = SavePath(lastLeaf) /\ e.name # lastLeaf.name)
        => files[SavePath(lastLeaf)].title = lastLeaf.name

\* C3 as amended: the first write wins. Every file the run wrote still holds
\* the content of the leaf that wrote it, and no path is listed twice.
C3_FirstWriteWins ==
    \A e \in ManifestEntries(manifest) :
        /\ e.path \in DOMAIN files
        /\ files[e.path].title = e.name
        /\ files[e.path].category = e.category
        /\ \A f \in ManifestEntries(manifest) : f.path = e.path => f = e

C3_Witness ==
    /\ pc = "done"
    /\ skipped > 0
    /\ lastLeaf # Idle
    /\ \E e \in ManifestEntries(manifest) :
          e.path = SavePath(lastLeaf) /\ e.name # lastLeaf.name

\* C4: when the root page cannot be fetched, has no sidebar or yields no
\* category, scrape_all aborts: one request, no scrape, no write, manifest
\* untouched, no manifest.json or INDEX.md written.
C4_AbortBeforeScraping ==
    /\ (pc # "start" /\ categories = <<>>) => pc = "aborted"
    /\ pc = "aborted" =>
          /\ categories = <<>>
          /\ requests = 1
          /\ attempted = 0
          /\ writes = 0
          /\ manifest = NewManifest
          /\ manifestWrites = 0
          /\ indexWrites = 0

C4_Witness == pc = "aborted" /\ requests = 1

\* C5: a leaf whose fetch fails or whose content container is absent is counted
\* as failed, writes nothing, leaves the manifest and the earlier files alone,
\* and the loops go on with the next leaf or category.
C5_LeafFailureNotFatal ==
    [][(pc = "extract" /\ NoContainer(html)) =>
          /\ disk' = disk
          /\ manifest' = manifest
          /\ total_failed' = total_failed + 1
          /\ total_scraped' = total_scraped
          /\ IF subcategories # <<>> /\ j < Len(subcategories)
             THEN pc' = "scrape" /\ j' = j + 1 /\ i' = i
             ELSE IF i < Len(categories)
             THEN pc' = "subcats" /\ i' = i + 1
             ELSE pc' = "save"]_vars

C5_Witness ==
    /\ pc = "subcats"
    /\ i = 3
    /\ lastLeaf # Idle
    /\ SavePath(lastLeaf) \notin DOMAIN files
    /\ total_failed > 0
    /\ writes > 0

\* C6 as stated: a nested sub-list with sub-links yields exactly one leaf per
\* sub-link, in order, with the parent's version, category and display name.
C6_OneLeafPerSubLink ==
    [][(pc = "parse_subs" /\ HasNestedList(html) /\ html.links # <<>>) =>
          /\ Len(subcategories') = Len(html.links)
          /\ \A k \in 1..Len(html.links) :
                /\ subcategories'[k].name = html.links[k].text
                /\ subcategories'[k].version = categories[i].version
                /\ subcategories'[k].category = categories[i].category
                /\ subcategories'[k].category_name = categories[i].name]_vars

\* C6 as amended: one leaf per sub-link that carries the class (script) or
\* function (engine) parameter, in order, with the parent's version, category
\* and display name; the category itself when no sub-link carries it.
C6_OneLeafPerQualifyingSubLink ==
    [][(pc = "parse_subs" /\ HasNestedList(html)) =>
          LET q == Qualifying(html.links, categories[i].version)
          IN IF q = <<>>
             THEN subcategories' = <<categories[i]>>
             ELSE /\ Len(subcategories') = Len(q)
                  /\ \A k \in 1..Len(q) :
                        /\ subcategories'[k].name = q[k].text
                        /\ subcategories'[k].version = categories[i].version
                        /\ subcategories'[k].category = categories[i].category
                        /\ subcategories'[k].category_name = categories[i].name
                        /\ IF categories[i].version = "script"
                           THEN subcategories'[k].class = q[k].query.class
                           ELSE subcategories'[k].function = q[k].query.function]_vars

C6_Witness ==
    /\ pc = "scrape"
    /\ j = 1
    /\ attempted = 0
    /\ Len(subcategories) = 2
    /\ "category_name" \in DOMAIN subcategories[1]
    /\ subcategories[1].name # subcategories[2].name
    /\ subcategories[1].category_name = categories[i].name
    /\ subcategories[1].name # categories[i].name

\* C7: a category without nested sub-list is its own sole leaf, and whenever
\* discovery yields no sub-leaf scrape_all scrapes the category itself once, so
\* every category has at least one attempted leaf.
C7_CategoryIsOwnLeaf ==
    [][/\ (pc = "parse_subs" /\ html # NoHtml /\ html.sidebar
             /\ ~(html.selected /\ html.nested))
          => subcategories' = <<categories[i]>>
       /\ (pc \in {"scrape", "extract"} /\ pc' \in {"subcats", "save"})
          => /\ catAttempts' >= 1
             /\ subcategories = <<>> =>
                   /\ catAttempts' = 1
                   /\ lastLeaf' = categories[i]]_vars

C7_Witness ==
    /\ pc = "save"
    /\ catAttempts = 1
    /\ lastLeaf = categories[i]
    /\ requests = 2
    /\ skipped = 1

\* C8: sanitizing the sanitized name of a leaf (or of its category) changes
\* nothing, the path scrape_page probes
\* is the path save_content writes, documents stay on disk, and so a saved leaf
\* is skipped by every later scrape_page call on it.
C8_SanitizeIdempotentPathsAgree ==
    [][/\ \A p \in DOMAIN files : p \in DOMAIN files' /\ files'[p] = files[p]
       /\ pc \in {"scrape", "extract"} =>
             LET leaf == CurrentLeaf
                 probed == ProbePath(leaf)
             IN /\ Sanitize(Sanitize(leaf.name)) = Sanitize(leaf.name)
                /\ Sanitize(Sanitize(CategoryNameOf(leaf)))
                      = Sanitize(CategoryNameOf(leaf))
                /\ probed = SavePath(leaf)
                /\ (pc = "extract" /\ writes' = writes + 1) => probed \in DOMAIN files'
                /\ (pc = "scrape" /\ probed \in DOMAIN files) =>
                      skipped' = skipped + 1]_vars

C8_Witness ==
    /\ run = 2
    /\ skipped > 0
    /\ lastLeaf # Idle
    /\ lastLeaf.name = <<"!", "\t", " ">>
    /\ ProbePath(lastLeaf) = <<"engine", <<>>, <<>>>>

\* the sum of the lengths of all item lists of the manifest
ItemCount(m) == Cardinality(ManifestEntries(m))

\* C9: total_files is the number of manifest entries and the number of
\* documents written in this run; a rerun that skips every leaf ends with
\* total_files = 0 and no version in the manifest.
C9_TotalFilesCountsEntries ==
    /\ manifest.metadata.total_files = ItemCount(manifest)
    /\ manifest.metadata.total_files = writes
    /\ (pc = "done" /\ attempted = skipped) =>
          /\ manifest.metadata.total_files = 0
          /\ manifest.versions = EmptyMap

C9_Witness ==
    /\ run = 2
    /\ pc = "done"
    /\ attempted = 2
    /\ skipped = 2
    /\ Cardinality(DOMAIN files) = 2

\* C10: every attempted leaf is counted once, as scraped or as failed.
C10_EveryLeafCountedOnce ==
    /\ pc # "extract" => total_scraped + total_failed = attempted
    /\ pc = "extract" => total_scraped + total_failed = attempted - 1
    /\ total_failed = rejected
    /\ total_scraped = writes + skipped
    /\ manifest.metadata.total_files <= total_scraped

C10_Witness ==
    /\ pc = "done"
    /\ total_failed > 0
    /\ skipped > 0
    /\ writes > 0

====
